---- MODULE Spec2Model ----
(***************************************************************************)
(* Client connection lifecycle of alvr/client_core/src/connection.rs:      *)
(* connection_lifecycle_loop, connection_pipeline (discovery, handshake,   *)
(* streaming, teardown) and the seven worker threads of a session.         *)
(*                                                                         *)
(* One supervisor thread runs connection_lifecycle_loop; pc is its program *)
(* counter, across connection_lifecycle_loop and connection_pipeline.  The *)
(* worker threads run concurrently with it; the environment clears         *)
(* IS_ALIVE and toggles IS_RESUMED at any time.                            *)
(***************************************************************************)
EXTENDS Integers, FiniteSets, Sequences, TLC

VARIABLES
    IS_ALIVE,                   \* lib.rs flag, read at connection.rs:93,121,415
    IS_RESUMED,                 \* lib.rs flag, read at connection.rs:94,415
    IS_STREAMING,               \* lib.rs flag, set at connection.rs:285,512
    DISCONNECT_SERVER_NOTIFIER, \* connection.rs:64  TRUE = Some(sender)
    CONTROL_SENDER,             \* connection.rs:67  TRUE = Some(..)
    TRACKING_SENDER,            \* connection.rs:69
    STATISTICS_SENDER,          \* connection.rs:71
    LOG_CHANNEL_SENDER,         \* logging_backend slot, connection.rs:292,514
    hud,                        \* last UpdateHudMessage pushed by set_hud_message
    last_stream_event,          \* last StreamingStarted/StreamingStopped pushed
    pc,                         \* supervisor thread position
    result,                     \* what the last connection_pipeline call returned
    settings,                   \* session settings derived at connection.rs:177-183
    disconnect_channel,         \* units queued in the session's mpsc channel
    thread,                     \* worker thread state: none, run, done (closure
                                \* ended), fatal (ended on a fatal transport
                                \* error), detached (see detached)
    fired,                      \* units each worker sent on the notifier
    joined,                     \* workers whose JoinHandle was joined
    detached,                   \* running threads whose JoinHandle was dropped
    committed,                  \* this invocation executed IS_STREAMING.set(true)
    sessions_since_sleep,       \* pipeline calls since the last retry sleep
    faults,                     \* faults the workers of this session have met
    video,                      \* locals of the video receive closure
    control_send,               \* locals of the control send closure, with the
                                \* time read by Instant::now()
    negotiation,                \* the negotiated blob of the StreamConfigPacket
                                \* and what lines 185-215 derive from it
    locks                       \* who holds each slot mutex, and where the
                                \* control send and video receive closures are
                                \* statement by statement

vars == << IS_ALIVE, IS_RESUMED, IS_STREAMING, DISCONNECT_SERVER_NOTIFIER,
           CONTROL_SENDER, TRACKING_SENDER, STATISTICS_SENDER,
           LOG_CHANNEL_SENDER, hud, last_stream_event, pc, result, settings,
           disconnect_channel, thread, fired, joined, detached,
           committed, sessions_since_sleep, faults, video, control_send,
           negotiation, locks >>

envVars    == << IS_ALIVE, IS_RESUMED >>
slotVars   == << CONTROL_SENDER, TRACKING_SENDER, STATISTICS_SENDER,
                 LOG_CHANNEL_SENDER >>
workerVars == << thread, fired, faults, video >>
closureVars == << control_send, negotiation, locks >>
callVars   == << result, settings, joined, committed, sessions_since_sleep >>

(***************************************************************************)
(* Bound of the model: the faults (fatal transport errors, malformed       *)
(* packets, Restarting, audio errors) the workers of one session meet.     *)
(***************************************************************************)
MaxFaults == 1

(***************************************************************************)
(* Constants of the source.                                                *)
(***************************************************************************)
INITIAL_MESSAGE ==
    "Searching for streamer...\nOpen ALVR on your PC then click \"Trust\"\nnext to the client entry"
NETWORK_UNREACHABLE_MESSAGE == "Cannot connect to the internet"
STREAM_STARTING_MESSAGE == "The stream will begin soon\nPlease wait..."
SERVER_RESTART_MESSAGE == "The streamer is restarting\nPlease wait..."
SERVER_DISCONNECTED_MESSAGE == "The streamer has disconnected."
UNEXPECTED_PACKET_MESSAGE == "Unexpected packet"
\* line 98, the error text {e} left out
CONNECTION_ERROR_MESSAGE == "Connection error:\nCheck the PC for more details"

Workers == { "video_receive", "game_audio", "microphone", "haptics_receive",
             "control_send", "control_receive", "stream_receive" }

\* settings.audio.game_audio, settings.audio.microphone,
\* settings.connection.avoid_video_glitching, settings.logging.client_log_report_level
Settings == [ game_audio : BOOLEAN, microphone : BOOLEAN,
              avoid_video_glitching : BOOLEAN, client_log_report : BOOLEAN ]

DefaultSettings == [ game_audio |-> FALSE, microphone |-> FALSE,
                     avoid_video_glitching |-> FALSE, client_log_report |-> FALSE ]

\* Locals of the video receive closure, and what it did with the last packet.
\*   at            "check": at the loop condition of line 302; "recv": in
\*                 video_receiver.recv of line 303; "decide": at line 326
\*   avoid_video_glitching   settings.connection.avoid_video_glitching, moved
\*                 into the closure at spawn
\*   stream_corrupted   the latch of line 301
\*   is_idr, had_packet_loss   header.is_idr and data.had_packet_loss()
\*   loss_since_idr     a non-IDR packet received since the last IDR (or the
\*                 start) carried the loss flag
\*   reject_since_idr   a decoder push since the last IDR was received (or the
\*                 start) was rejected
\*   request_idr        RequestIdr packets sent for the packet
\*   sender_live        CONTROL_SENDER held a handle at every lock taken for it
\*   action             "pushed" or "dropped": what lines 326-339 did with it
\*   clean_at_push      ~loss_since_idr /\ ~reject_since_idr when it was pushed
\*   latched            handling the packet took stream_corrupted from false to
\*                 true (line 319 or line 328)
\* The fields about the last packet are cleared at the next loop condition.
VideoInit == [ at |-> "check", avoid_video_glitching |-> FALSE,
               stream_corrupted |-> FALSE,
               is_idr |-> FALSE, had_packet_loss |-> FALSE,
               loss_since_idr |-> FALSE, reject_since_idr |-> FALSE,
               request_idr |-> 0, sender_live |-> TRUE,
               action |-> "none", clean_at_push |-> TRUE, latched |-> FALSE ]

\* Discrete time: STREAMING_RECV_TIMEOUT (line 60) and KEEPALIVE_INTERVAL
\* (alvr_sockets, imported at line 25) in ticks.  Time is kept relative, so the
\* values bound the state space; no property depends on them.
STREAMING_RECV_TIMEOUT == 2
KEEPALIVE_INTERVAL == 3

\* The longest time the model measures since the last KeepAlive
MaxSince == KEEPALIVE_INTERVAL + STREAMING_RECV_TIMEOUT + 1

\* Locals of the control send closure.
\*   at         "cond": at the loop condition of line 415; "recv": in
\*              log_channel_receiver.recv_timeout of line 417; "keepalive": at
\*              line 428
\*   since      ticks of Instant::now() since keepalive_deadline was last set
\*              (lines 408, 432), counted up to MaxSince
\*   deadline   ticks from that moment to keepalive_deadline: 0 at line 408,
\*              KEEPALIVE_INTERVAL at line 432
\*   sent       a KeepAlive has been sent
\*   gap        ticks between the last two KeepAlive packets, 0 before the second
ControlSendInit == [ at |-> "cond", since |-> 0, deadline |-> 0, sent |-> FALSE,
                     gap |-> 0 ]

\* A value of the negotiated blob under one key: absent, or a JSON value that
\* is a string, an integer number, or the pair v of a UVec2.  A number is
\* written in two words, hi * 2^32 + n with n below 2^32.
Absent == [ kind |-> "absent", hi |-> 0, n |-> 0, v |-> << 0, 0 >> ]
JsonString == [ kind |-> "string", hi |-> 0, n |-> 0, v |-> << 0, 0 >> ]
JsonNumber(n) == [ kind |-> "number", hi |-> 0, n |-> n, v |-> << 0, 0 >> ]
JsonWide(hi, n) == [ kind |-> "number", hi |-> hi, n |-> n, v |-> << 0, 0 >> ]
JsonUVec2(v) == [ kind |-> "uvec2", hi |-> 0, n |-> 0, v |-> v ]

\* The values the blob is drawn from, per key
ViewResolutionValues ==
    { Absent, JsonString, JsonNumber(7), JsonUVec2(<< 0, 0 >>), JsonUVec2(<< 2, 1 >>) }
RefreshRateValues ==
    { Absent, JsonString, JsonUVec2(<< 2, 1 >>),
      JsonNumber(-60), JsonNumber(0), JsonNumber(60), JsonNumber(72),
      JsonNumber(90) }
SampleRateValues ==
    { Absent, JsonString, JsonNumber(-1), JsonNumber(44100), JsonNumber(48000),
      JsonWide(1, 48000) }

\* The mutexes of the shared slots (connection.rs:64-72 and the logging backend,
\* the statistics manager and the event queue of lib.rs)
SlotMutexes == { "CONTROL_SENDER", "TRACKING_SENDER", "STATISTICS_SENDER",
                 "LOG_CHANNEL_SENDER", "STATISTICS_MANAGER", "EVENT_QUEUE" }

\* No thread holds any slot mutex; both closures are at their loop condition
LocksInit ==
    [ holder |-> [m \in SlotMutexes |-> "none"],
      at |-> [w \in { "control_send", "video_receive" } |-> "cond"],
      packet |-> FALSE ]

\* What lines 185-215 hold: the blob, the three derived values, the values put
\* into the StreamingStarted event, and how far the lines have run
NegotiationInit ==
    [ at |-> "negotiate",
      blob |-> [ view_resolution |-> Absent, refresh_rate_hint |-> Absent,
                 game_audio_sample_rate |-> Absent ],
      view_resolution |-> << 0, 0 >>, refresh_rate_hint |-> 0,
      game_audio_sample_rate |-> 0,
      event |-> [ view_resolution |-> << 0, 0 >>, refresh_rate_hint |-> 0 ] ]

(***************************************************************************)
(* Positions of the supervisor thread.                                     *)
(***************************************************************************)
DiscoveryPcs == { "p_open", "disc_alive", "disc_broadcast", "disc_netdown",
                  "disc_connect" }
HandshakePcs == { "hs_mic", "hs_accepted", "hs_config", "hs_parse", "hs_split",
                  "hs_start", "hs_bind", "hs_ready", "hs_stream_accept" }
CommitPcs    == { "commit_streaming", "commit_control", "commit_tracking",
                  "commit_statistics" }
SpawnPcs     == { "st_log", "st_event", "spawn_video", "spawn_game_audio",
                  "spawn_microphone", "spawn_haptics", "spawn_control_send",
                  "spawn_control_receive", "spawn_stream_receive" }
TeardownPcs  == { "td_streaming", "td_slots", "td_event" }
JoinPcs      == { "join_video", "join_game_audio", "join_microphone",
                  "join_haptics", "join_control_send", "join_control_receive",
                  "join_stream_receive", "p_return" }
StreamingPcs == CommitPcs \cup SpawnPcs \cup {"block"} \cup TeardownPcs \cup JoinPcs

Init ==
    /\ IS_ALIVE = TRUE
    /\ IS_RESUMED \in BOOLEAN
    /\ IS_STREAMING = FALSE
    /\ DISCONNECT_SERVER_NOTIFIER = FALSE
    /\ CONTROL_SENDER = FALSE
    /\ TRACKING_SENDER = FALSE
    /\ STATISTICS_SENDER = FALSE
    /\ LOG_CHANNEL_SENDER = FALSE
    /\ hud = "none"
    /\ last_stream_event = "none"
    /\ pc = "lifecycle_start"
    /\ result = "none"
    /\ settings = DefaultSettings
    /\ disconnect_channel = 0
    /\ thread = [w \in Workers |-> "none"]
    /\ fired = [w \in Workers |-> 0]
    /\ joined = {}
    /\ detached = {}
    /\ committed = FALSE
    /\ sessions_since_sleep = 0
    /\ faults = 0
    /\ video = VideoInit
    /\ control_send = ControlSendInit
    /\ negotiation = NegotiationInit
    /\ locks = LocksInit

(***************************************************************************)
(* Environment: the application clears IS_ALIVE (once) and pauses/resumes. *)
(***************************************************************************)
Destroy ==
    /\ IS_ALIVE
    /\ IS_ALIVE' = FALSE
    /\ UNCHANGED << IS_RESUMED, IS_STREAMING, DISCONNECT_SERVER_NOTIFIER,
                    slotVars, hud, last_stream_event, pc, callVars,
                    disconnect_channel, workerVars, detached,
                    closureVars >>

Pause ==
    /\ IS_RESUMED
    /\ IS_RESUMED' = FALSE
    /\ UNCHANGED << IS_ALIVE, IS_STREAMING, DISCONNECT_SERVER_NOTIFIER,
                    slotVars, hud, last_stream_event, pc, callVars,
                    disconnect_channel, workerVars, detached,
                    closureVars >>

Resume ==
    /\ ~IS_RESUMED
    /\ IS_RESUMED' = TRUE
    /\ UNCHANGED << IS_ALIVE, IS_STREAMING, DISCONNECT_SERVER_NOTIFIER,
                    slotVars, hud, last_stream_event, pc, callVars,
                    disconnect_channel, workerVars, detached,
                    closureVars >>

(***************************************************************************)
(* connection_lifecycle_loop                                               *)
(***************************************************************************)
\* line 91: set_hud_message(INITIAL_MESSAGE)
LifecycleStart ==
    /\ pc = "lifecycle_start"
    /\ hud' = INITIAL_MESSAGE
    /\ pc' = "while_alive"
    /\ UNCHANGED << envVars, closureVars, IS_STREAMING, DISCONNECT_SERVER_NOTIFIER, slotVars,
                    last_stream_event, callVars, disconnect_channel,
                    workerVars, detached >>

\* line 93: while IS_ALIVE.value()
WhileAlive ==
    /\ pc = "while_alive"
    /\ pc' = IF IS_ALIVE THEN "if_resumed" ELSE "returned"
    /\ UNCHANGED << envVars, closureVars, IS_STREAMING, DISCONNECT_SERVER_NOTIFIER, slotVars,
                    hud, last_stream_event, callVars, disconnect_channel,
                    workerVars, detached >>

\* line 94: the condition under which an iteration calls connection_pipeline
ShouldConnect(resumed) == resumed

\* lines 94-96, 102-104: if IS_RESUMED.value() { connection_pipeline(..) } else { debug!(..) }
\* Entering connection_pipeline starts a new set of worker handles.
IfResumed ==
    /\ pc = "if_resumed"
    /\ IF ShouldConnect(IS_RESUMED)
       THEN /\ pc' = "p_open"
            /\ result' = "none"
            /\ committed' = FALSE
            /\ joined' = {}
            /\ sessions_since_sleep' = sessions_since_sleep + 1
            /\ thread' = [w \in Workers |-> "none"]
            /\ fired' = [w \in Workers |-> 0]
            /\ faults' = 0
            /\ video' = VideoInit
            /\ UNCHANGED settings
       ELSE /\ pc' = "sleep"
            /\ UNCHANGED << callVars, workerVars >>
    /\ UNCHANGED << envVars, closureVars, IS_STREAMING, DISCONNECT_SERVER_NOTIFIER, slotVars,
                    hud, last_stream_event, disconnect_channel, detached >>

\* lines 95-101: if let Err(e) = connection_pipeline(..) { set_hud_message(..) }
AfterSession ==
    /\ pc = "ret"
    /\ hud' = IF result = "err" THEN CONNECTION_ERROR_MESSAGE ELSE hud
    /\ pc' = "sleep"
    /\ UNCHANGED << envVars, closureVars, IS_STREAMING, DISCONNECT_SERVER_NOTIFIER, slotVars,
                    last_stream_event, callVars, disconnect_channel,
                    workerVars, detached >>

\* line 106: thread::sleep(CONNECTION_RETRY_INTERVAL)
RetrySleep ==
    /\ pc = "sleep"
    /\ pc' = "while_alive"
    /\ sessions_since_sleep' = 0
    /\ UNCHANGED << envVars, closureVars, IS_STREAMING, DISCONNECT_SERVER_NOTIFIER, slotVars,
                    hud, last_stream_event, result, settings, joined, committed,
                    disconnect_channel, workerVars, detached >>

(***************************************************************************)
(* connection_pipeline: leaving the function                               *)
(***************************************************************************)
\* DropGuard_drop with the guard forgotten: the slot keeps its sender
DropGuard_drop_Forgotten(slot) == slot

\* lines 149-154: impl Drop for DropGuard; the slot's value after the drop
DropGuard_drop(slot) == FALSE

\* ReturnEarly with the error swallowed: Ok whatever the outcome
ReturnEarly_AlwaysOk(res) ==
    /\ pc' = "ret"
    /\ result' = "ok"
    /\ UNCHANGED << settings, joined, committed, sessions_since_sleep >>

\* A return before line 155: no guard exists yet, nothing is spawned.
ReturnEarly(res) ==
    /\ pc' = "ret"
    /\ result' = res
    /\ UNCHANGED << settings, joined, committed, sessions_since_sleep >>

\* A return (Ok, or Err through `?`) after line 155: the locals are dropped, so
\* the guard clears the notifier slot and the channel's receiver goes away.
ReturnGuarded(res) ==
    /\ pc' = "ret"
    /\ result' = res
    /\ settings' = DefaultSettings
    /\ DISCONNECT_SERVER_NOTIFIER' = DropGuard_drop(DISCONNECT_SERVER_NOTIFIER)
    /\ disconnect_channel' = 0
    /\ UNCHANGED << joined, committed, sessions_since_sleep >>

(***************************************************************************)
(* connection_pipeline: discovery, lines 114-144                           *)
(***************************************************************************)
\* lines 115-118: AnnouncerSocket::new(..).to_con()?, get_server_listener(..).to_con()?
OpenSockets ==
    /\ pc = "p_open"
    /\ \E ok \in BOOLEAN :
          IF ok THEN pc' = "disc_alive" /\ UNCHANGED callVars
                ELSE ReturnEarly("err")
    /\ UNCHANGED << envVars, closureVars, IS_STREAMING, DISCONNECT_SERVER_NOTIFIER, slotVars,
                    hud, last_stream_event, disconnect_channel, workerVars,
                    detached >>

\* lines 121-123: if !IS_ALIVE.value() { return Ok(()) }
DiscoveryAlive ==
    /\ pc = "disc_alive"
    /\ IF IS_ALIVE THEN pc' = "disc_broadcast" /\ UNCHANGED callVars
                   ELSE ReturnEarly("ok")
    /\ UNCHANGED << envVars, closureVars, IS_STREAMING, DISCONNECT_SERVER_NOTIFIER, slotVars,
                    hud, last_stream_event, disconnect_channel, workerVars,
                    detached >>

\* lines 125-128: announcer_socket.broadcast(); on Err the network-unreachable HUD
Broadcast ==
    /\ pc = "disc_broadcast"
    /\ \E ok \in BOOLEAN :
          IF ok THEN pc' = "disc_connect" /\ UNCHANGED hud
                ELSE pc' = "disc_netdown" /\ hud' = NETWORK_UNREACHABLE_MESSAGE
    /\ UNCHANGED << envVars, closureVars, IS_STREAMING, DISCONNECT_SERVER_NOTIFIER, slotVars,
                    last_stream_event, callVars, disconnect_channel,
                    workerVars, detached >>

\* lines 130-134: sleep(RETRY_CONNECT_MIN_INTERVAL); set_hud_message(INITIAL); return Ok
NetworkDown ==
    /\ pc = "disc_netdown"
    /\ hud' = INITIAL_MESSAGE
    /\ ReturnEarly("ok")
    /\ UNCHANGED << envVars, closureVars, IS_STREAMING, DISCONNECT_SERVER_NOTIFIER, slotVars,
                    last_stream_event, disconnect_channel, workerVars,
                    detached >>

\* lines 137-155: ProtoControlSocket::connect_to(..); on Ok the channel is made,
\* its sender stored in the notifier slot and the guard created
ConnectTo ==
    /\ pc = "disc_connect"
    /\ \E ok \in BOOLEAN :
          IF ok THEN /\ pc' = "hs_mic"
                     /\ DISCONNECT_SERVER_NOTIFIER' = TRUE
                     /\ disconnect_channel' = 0
                ELSE /\ pc' = "disc_alive"
                     /\ UNCHANGED << DISCONNECT_SERVER_NOTIFIER, disconnect_channel >>
    /\ UNCHANGED << envVars, closureVars, IS_STREAMING, slotVars, hud, last_stream_event,
                    callVars, workerVars, detached >>

(***************************************************************************)
(* connection_pipeline: handshake, lines 157-281                           *)
(***************************************************************************)
supUnchanged == << envVars, closureVars, IS_STREAMING, slotVars, last_stream_event,
                   workerVars, detached >>

\* lines 157-160: AudioDevice::new_input(None).unwrap().input_sample_rate().unwrap()
\* A failed unwrap panics; the unwinding drops the guard.
MicrophoneSampleRate ==
    /\ pc = "hs_mic"
    /\ \E ok \in BOOLEAN :
          IF ok THEN /\ pc' = "hs_accepted"
                     /\ UNCHANGED << DISCONNECT_SERVER_NOTIFIER, disconnect_channel,
                                     callVars >>
                ELSE /\ pc' = "panicked"
                     /\ DISCONNECT_SERVER_NOTIFIER' =
                            DropGuard_drop(DISCONNECT_SERVER_NOTIFIER)
                     /\ disconnect_channel' = 0
                     /\ UNCHANGED callVars
    /\ UNCHANGED << supUnchanged, hud >>

\* lines 162-173: proto_control_socket.send(&ConnectionAccepted{..}).to_con()?
SendConnectionAccepted ==
    /\ pc = "hs_accepted"
    /\ \E ok \in BOOLEAN :
          IF ok THEN /\ pc' = "hs_config"
                     /\ UNCHANGED << DISCONNECT_SERVER_NOTIFIER, disconnect_channel,
                                     callVars >>
                ELSE ReturnGuarded("err")
    /\ UNCHANGED << supUnchanged, hud >>

\* lines 174-175: proto_control_socket.recv::<StreamConfigPacket>(HANDSHAKE_ACTION_TIMEOUT)?
RecvStreamConfig ==
    /\ pc = "hs_config"
    /\ \E ok \in BOOLEAN :
          IF ok THEN /\ pc' = "hs_parse"
                     /\ UNCHANGED << DISCONNECT_SERVER_NOTIFIER, disconnect_channel,
                                     callVars >>
                ELSE ReturnGuarded("err")
    /\ UNCHANGED << supUnchanged, hud >>

\* lines 177-215: the session blob and the negotiated blob are parsed (each `?`
\* returns Err), the settings derived and the StatisticsManager installed (line
\* 209 panics on a refresh rate that is not positive; the unwinding drops the
\* guard)
ParseConfig ==
    /\ pc = "hs_parse"
    /\ \/ /\ \E s \in Settings : settings' = s
          /\ pc' = "hs_split"
          /\ UNCHANGED << DISCONNECT_SERVER_NOTIFIER, disconnect_channel, result,
                          joined, committed, sessions_since_sleep >>
       \/ ReturnGuarded("err")
       \/ /\ pc' = "panicked"
          /\ DISCONNECT_SERVER_NOTIFIER' = DropGuard_drop(DISCONNECT_SERVER_NOTIFIER)
          /\ disconnect_channel' = 0
          /\ UNCHANGED callVars
    /\ UNCHANGED << supUnchanged, hud >>

\* `as f32` of an f64 holding the integer x: exact up to 2^24, then rounded to
\* the nearest even multiple (values below 2^25)
AsF32(x) ==
    IF x < 0 THEN 0 - (IF (0 - x) < 16777216 \/ (0 - x) % 2 = 0 THEN 0 - x
                       ELSE IF (((0 - x) - 1) \div 2) % 2 = 0 THEN (0 - x) - 1
                       ELSE (0 - x) + 1)
    ELSE IF x < 16777216 \/ x % 2 = 0 THEN x
    ELSE IF ((x - 1) \div 2) % 2 = 0 THEN x - 1 ELSE x + 1

\* `as u32` of the u64 hi * 2^32 + n: the low word
AsU32(hi, n) == n

\* lines 188-191: .get("view_resolution").and_then(from_value).unwrap_or(UVec2::ZERO)
view_resolution_of(value) ==
    IF value.kind = "uvec2" THEN value.v ELSE << 0, 0 >>

\* lines 192-195: .get("refresh_rate_hint").and_then(as_f64).unwrap_or(60.0) as f32
refresh_rate_hint_of(value) ==
    AsF32(IF value.kind = "number" THEN value.n ELSE 60)

\* lines 196-199: .get("game_audio_sample_rate").and_then(as_u64).unwrap_or(44100) as u32
game_audio_sample_rate_of(value) ==
    IF value.kind = "number" /\ value.n >= 0 THEN AsU32(value.hi, value.n)
    ELSE AsU32(0, 44100)

\* line 209: Duration::from_secs_f32(1.0 / refresh_rate_hint) panics when the
\* quotient is negative or not finite
from_secs_f32_panics(refresh_rate_hint) == refresh_rate_hint <= 0

negotiationUnchanged ==
    << envVars, control_send, locks, IS_STREAMING, DISCONNECT_SERVER_NOTIFIER, slotVars,
       hud, last_stream_event, disconnect_channel, workerVars, detached >>

\* lines 185-199: the three values are derived from the negotiated blob
Negotiate ==
    /\ pc = "hs_parse"
    /\ negotiation.at = "negotiate"
    /\ negotiation' = [negotiation EXCEPT
          !.at = "event",
          !.view_resolution = view_resolution_of(negotiation.blob.view_resolution),
          !.refresh_rate_hint =
              refresh_rate_hint_of(negotiation.blob.refresh_rate_hint),
          !.game_audio_sample_rate =
              game_audio_sample_rate_of(negotiation.blob.game_audio_sample_rate)]
    /\ UNCHANGED << negotiationUnchanged, pc, callVars >>

\* lines 201-205: ClientCoreEvent::StreamingStarted { view_resolution, refresh_rate_hint, .. }
BuildStreamingStarted ==
    /\ pc = "hs_parse"
    /\ negotiation.at = "event"
    /\ negotiation' = [negotiation EXCEPT
          !.at = "statistics",
          !.event = [ view_resolution |-> negotiation.view_resolution,
                      refresh_rate_hint |-> negotiation.refresh_rate_hint ]]
    /\ UNCHANGED << negotiationUnchanged, pc, callVars >>

\* lines 207-215: *STATISTICS_MANAGER.lock() = Some(StatisticsManager::new(..)); a
\* panic of from_secs_f32 unwinds connection_pipeline and drops the guard
InstallStatisticsManager ==
    /\ pc = "hs_parse"
    /\ negotiation.at = "statistics"
    /\ IF from_secs_f32_panics(negotiation.refresh_rate_hint)
       THEN /\ negotiation' = [negotiation EXCEPT !.at = "panicked"]
            /\ pc' = "panicked"
            /\ DISCONNECT_SERVER_NOTIFIER' = DropGuard_drop(DISCONNECT_SERVER_NOTIFIER)
            /\ disconnect_channel' = 0
       ELSE /\ negotiation' = [negotiation EXCEPT !.at = "done"]
            /\ pc' = "hs_split"
            /\ UNCHANGED << DISCONNECT_SERVER_NOTIFIER, disconnect_channel >>
    /\ UNCHANGED << envVars, control_send, locks, IS_STREAMING, slotVars, hud,
                    last_stream_event, workerVars, detached, callVars >>

\* lines 217-219: proto_control_socket.split(STREAMING_RECV_TIMEOUT).to_con()?
SplitControlSocket ==
    /\ pc = "hs_split"
    /\ \E ok \in BOOLEAN :
          IF ok THEN /\ pc' = "hs_start"
                     /\ UNCHANGED << DISCONNECT_SERVER_NOTIFIER, disconnect_channel,
                                     callVars >>
                ELSE ReturnGuarded("err")
    /\ UNCHANGED supUnchanged
    /\ UNCHANGED hud

\* What control_receiver.recv(HANDSHAKE_ACTION_TIMEOUT) yields at line 221
StartPackets == { "StartStream", "Restarting", "Err", "Other" }

\* The HUD message of each arm of the match at lines 221-241
StartPacketHud(packet) ==
    CASE packet = "StartStream" -> STREAM_STARTING_MESSAGE
      [] packet = "Restarting" -> SERVER_RESTART_MESSAGE
      [] packet = "Err" -> SERVER_DISCONNECTED_MESSAGE
      [] OTHER -> UNEXPECTED_PACKET_MESSAGE

\* Proceeds with the Restarting arm falling through to line 243
Proceeds_OnRestarting(packet) == packet \in { "StartStream", "Restarting" }

\* The arms of the match at lines 221-241 that do not return
Proceeds(packet) == packet = "StartStream"

\* lines 221-241: match control_receiver.recv(HANDSHAKE_ACTION_TIMEOUT)
RecvStartStream ==
    /\ pc = "hs_start"
    /\ \E packet \in StartPackets :
          /\ hud' = StartPacketHud(packet)
          /\ IF Proceeds(packet)
             THEN /\ pc' = "hs_bind"
                  /\ UNCHANGED << DISCONNECT_SERVER_NOTIFIER, disconnect_channel,
                                  callVars >>
             ELSE ReturnGuarded("ok")
    /\ UNCHANGED supUnchanged

\* lines 243-250: StreamSocketBuilder::listen_for_server(..).to_con()?
BindStreamSocket ==
    /\ pc = "hs_bind"
    /\ \E ok \in BOOLEAN :
          IF ok THEN /\ pc' = "hs_ready"
                     /\ UNCHANGED << DISCONNECT_SERVER_NOTIFIER, disconnect_channel,
                                     callVars >>
                ELSE ReturnGuarded("err")
    /\ UNCHANGED << supUnchanged, hud >>

\* lines 252-256: control_sender.send(&StreamReady); on Err HUD and return Ok
SendStreamReady ==
    /\ pc = "hs_ready"
    /\ \E ok \in BOOLEAN :
          IF ok THEN /\ pc' = "hs_stream_accept"
                     /\ UNCHANGED << DISCONNECT_SERVER_NOTIFIER, disconnect_channel,
                                     callVars, hud >>
                ELSE /\ hud' = SERVER_DISCONNECTED_MESSAGE
                     /\ ReturnGuarded("ok")
    /\ UNCHANGED supUnchanged

\* lines 258-281: stream_socket_builder.accept_from_server(..)?; then the decoder
\* config is published and the stream endpoints are subscribed (infallible)
AcceptStreamSocket ==
    /\ pc = "hs_stream_accept"
    /\ \E ok \in BOOLEAN :
          IF ok THEN /\ pc' = "commit_streaming"
                     /\ UNCHANGED << DISCONNECT_SERVER_NOTIFIER, disconnect_channel,
                                     callVars >>
                ELSE ReturnGuarded("err")
    /\ UNCHANGED << supUnchanged, hud >>

(***************************************************************************)
(* connection_pipeline: streaming, lines 283-507                           *)
(***************************************************************************)
\* line 285: IS_STREAMING.set(true)
CommitStreaming ==
    /\ pc = "commit_streaming"
    /\ IS_STREAMING' = TRUE
    /\ committed' = TRUE
    /\ pc' = "commit_control"
    /\ UNCHANGED << envVars, closureVars, DISCONNECT_SERVER_NOTIFIER, slotVars, hud,
                    last_stream_event, result, settings, joined,
                    sessions_since_sleep, disconnect_channel, workerVars,
                    detached >>

\* line 286: *CONTROL_SENDER.lock() = Some(control_sender)
CommitControlSender ==
    /\ pc = "commit_control"
    /\ CONTROL_SENDER' = TRUE
    /\ pc' = "commit_tracking"
    /\ UNCHANGED << envVars, closureVars, IS_STREAMING, DISCONNECT_SERVER_NOTIFIER,
                    TRACKING_SENDER, STATISTICS_SENDER, LOG_CHANNEL_SENDER, hud,
                    last_stream_event, callVars, disconnect_channel, workerVars,
                    detached >>

\* line 287: *TRACKING_SENDER.lock() = Some(tracking_sender)
CommitTrackingSender ==
    /\ pc = "commit_tracking"
    /\ TRACKING_SENDER' = TRUE
    /\ pc' = "commit_statistics"
    /\ UNCHANGED << envVars, closureVars, IS_STREAMING, DISCONNECT_SERVER_NOTIFIER,
                    CONTROL_SENDER, STATISTICS_SENDER, LOG_CHANNEL_SENDER, hud,
                    last_stream_event, callVars, disconnect_channel, workerVars,
                    detached >>

\* line 288: *STATISTICS_SENDER.lock() = Some(statistics_sender)
CommitStatisticsSender ==
    /\ pc = "commit_statistics"
    /\ STATISTICS_SENDER' = TRUE
    /\ pc' = "st_log"
    /\ UNCHANGED << envVars, closureVars, IS_STREAMING, DISCONNECT_SERVER_NOTIFIER,
                    CONTROL_SENDER, TRACKING_SENDER, LOG_CHANNEL_SENDER, hud,
                    last_stream_event, callVars, disconnect_channel, workerVars,
                    detached >>

\* lines 290-296: the log channel; its sender is installed if log mirroring is on
InstallLogSender ==
    /\ pc = "st_log"
    /\ LOG_CHANNEL_SENDER' = IF settings.client_log_report THEN TRUE
                                                           ELSE LOG_CHANNEL_SENDER
    /\ pc' = "st_event"
    /\ UNCHANGED << envVars, closureVars, IS_STREAMING, DISCONNECT_SERVER_NOTIFIER,
                    CONTROL_SENDER, TRACKING_SENDER, STATISTICS_SENDER, hud,
                    last_stream_event, callVars, disconnect_channel, workerVars,
                    detached >>

\* line 298: EVENT_QUEUE.lock().push_back(streaming_start_event)
PushStreamingStarted ==
    /\ pc = "st_event"
    /\ last_stream_event' = "StreamingStarted"
    /\ pc' = "spawn_video"
    /\ UNCHANGED << envVars, closureVars, IS_STREAMING, DISCONNECT_SERVER_NOTIFIER, slotVars,
                    hud, callVars, disconnect_channel, workerVars, detached >>

\* thread::spawn(move || ..): the worker starts running
Spawn(w) == thread' = [thread EXCEPT ![w] = "run"]

\* thread::spawn(|| ()): the thread has nothing to do and is finished
SpawnNothing(w) == thread' = [thread EXCEPT ![w] = "done"]

\* The settings once a field has been moved into a worker's closure: the
\* supervisor does not read the field again
Moved(s, field) == [s EXCEPT ![field] = FALSE]

spawnUnchanged == << envVars, closureVars, IS_STREAMING, slotVars, hud, last_stream_event,
                     fired, faults >>

\* Dropping the JoinHandle of a thread that still runs detaches it.
DropHandles ==
    /\ detached' = detached \cup { w \in Workers : thread[w] = "run" }
    /\ thread' = [w \in Workers |->
                     IF thread[w] = "run" THEN "detached" ELSE thread[w]]

\* lines 300-341: let video_receive_thread = thread::spawn(move || ..)
SpawnVideoReceive ==
    /\ pc = "spawn_video"
    /\ Spawn("video_receive")
    /\ video' = [VideoInit EXCEPT
                    !.avoid_video_glitching = settings.avoid_video_glitching]
    /\ settings' = Moved(settings, "avoid_video_glitching")
    /\ pc' = "spawn_game_audio"
    /\ UNCHANGED << spawnUnchanged, DISCONNECT_SERVER_NOTIFIER, disconnect_channel,
                    result, joined, committed, sessions_since_sleep, detached >>

\* lines 343-358: if enabled, AudioDevice::new_output(None, None).to_con()? and the
\* play loop thread; otherwise a thread that does nothing
SpawnGameAudio ==
    /\ pc = "spawn_game_audio"
    /\ \E device_ok \in BOOLEAN :
          IF settings.game_audio /\ ~device_ok
          THEN /\ ReturnGuarded("err")
               /\ DropHandles
          ELSE /\ IF settings.game_audio THEN Spawn("game_audio")
                                        ELSE SpawnNothing("game_audio")
               /\ settings' = Moved(settings, "game_audio")
               /\ pc' = "spawn_microphone"
               /\ UNCHANGED << DISCONNECT_SERVER_NOTIFIER, disconnect_channel,
                               result, joined, committed, sessions_since_sleep,
                               detached >>
    /\ UNCHANGED << spawnUnchanged, video >>

\* lines 360-385: if enabled, AudioDevice::new_input(None).to_con()? and the
\* record loop thread; otherwise a thread that does nothing
SpawnMicrophone ==
    /\ pc = "spawn_microphone"
    /\ \E device_ok \in BOOLEAN :
          IF settings.microphone /\ ~device_ok
          THEN /\ ReturnGuarded("err")
               /\ DropHandles
          ELSE /\ IF settings.microphone THEN Spawn("microphone")
                                       ELSE SpawnNothing("microphone")
               /\ settings' = Moved(settings, "microphone")
               /\ pc' = "spawn_haptics"
               /\ UNCHANGED << DISCONNECT_SERVER_NOTIFIER, disconnect_channel,
                               result, joined, committed, sessions_since_sleep,
                               detached >>
    /\ UNCHANGED << spawnUnchanged, video >>

\* lines 387-405: let haptics_receive_thread = thread::spawn(move || ..)
SpawnHapticsReceive ==
    /\ pc = "spawn_haptics"
    /\ Spawn("haptics_receive")
    /\ pc' = "spawn_control_send"
    /\ UNCHANGED << spawnUnchanged, video, DISCONNECT_SERVER_NOTIFIER,
                    disconnect_channel, callVars, detached >>

\* lines 407-456: let control_send_thread = thread::spawn(move || ..)
SpawnControlSend ==
    /\ pc = "spawn_control_send"
    /\ Spawn("control_send")
    /\ pc' = "spawn_control_receive"
    /\ UNCHANGED << spawnUnchanged, video, DISCONNECT_SERVER_NOTIFIER,
                    disconnect_channel, callVars, detached >>

\* lines 458-488: let control_receive_thread = thread::spawn(move || ..)
SpawnControlReceive ==
    /\ pc = "spawn_control_receive"
    /\ Spawn("control_receive")
    /\ pc' = "spawn_stream_receive"
    /\ UNCHANGED << spawnUnchanged, video, DISCONNECT_SERVER_NOTIFIER,
                    disconnect_channel, callVars, detached >>

\* lines 490-507: let stream_receive_thread = thread::spawn(move || ..)
SpawnStreamReceive ==
    /\ pc = "spawn_stream_receive"
    /\ Spawn("stream_receive")
    /\ pc' = "block"
    /\ UNCHANGED << spawnUnchanged, video, DISCONNECT_SERVER_NOTIFIER,
                    disconnect_channel, callVars, detached >>

(***************************************************************************)
(* connection_pipeline: teardown, lines 509-537                            *)
(***************************************************************************)
\* line 510: disconnect_receiver.recv().ok() returns with a queued unit, or with
\* Err once no sender is left (the only sender lives in the notifier slot)
BlockOnDisconnect ==
    /\ pc = "block"
    /\ disconnect_channel > 0 \/ ~DISCONNECT_SERVER_NOTIFIER
    /\ disconnect_channel' = IF disconnect_channel > 0 THEN disconnect_channel - 1
                                                       ELSE 0
    /\ pc' = "td_streaming"
    /\ UNCHANGED << envVars, closureVars, IS_STREAMING, DISCONNECT_SERVER_NOTIFIER, slotVars,
                    hud, last_stream_event, callVars, workerVars, detached >>

\* TeardownStreaming with line 512 left out: the flag stays set
TeardownStreaming_FlagKept ==
    /\ pc = "td_streaming"
    /\ pc' = "td_slots"
    /\ UNCHANGED << envVars, closureVars, IS_STREAMING, DISCONNECT_SERVER_NOTIFIER,
                    slotVars, hud, last_stream_event, callVars, disconnect_channel,
                    workerVars, detached >>

\* line 512: IS_STREAMING.set(false)
TeardownStreaming ==
    /\ pc = "td_streaming"
    /\ IS_STREAMING' = FALSE
    /\ pc' = "td_slots"
    /\ UNCHANGED << envVars, closureVars, DISCONNECT_SERVER_NOTIFIER, slotVars, hud,
                    last_stream_event, callVars, disconnect_channel, workerVars,
                    detached >>

\* Mutex m is held by no thread
Free(m) == locks.holder[m] = "none"

\* The mutexes locked by lines 513-516
TeardownMutexes == { "CONTROL_SENDER", "LOG_CHANNEL_SENDER", "TRACKING_SENDER",
                     "STATISTICS_SENDER" }

\* TeardownSlots with line 515 left out: the tracking slot keeps its sender
TeardownSlots_TrackingKept ==
    /\ pc = "td_slots"
    /\ \A m \in TeardownMutexes : Free(m)
    /\ CONTROL_SENDER' = FALSE
    /\ LOG_CHANNEL_SENDER' = FALSE
    /\ STATISTICS_SENDER' = FALSE
    /\ pc' = "td_event"
    /\ UNCHANGED << envVars, closureVars, IS_STREAMING, DISCONNECT_SERVER_NOTIFIER, hud,
                    last_stream_event, callVars, disconnect_channel, workerVars,
                    detached, TRACKING_SENDER >>

\* lines 513-516: the control, log, tracking and statistics slots are set to
\* None, each under its mutex
TeardownSlots ==
    /\ pc = "td_slots"
    /\ \A m \in TeardownMutexes : Free(m)
    /\ CONTROL_SENDER' = FALSE
    /\ LOG_CHANNEL_SENDER' = FALSE
    /\ TRACKING_SENDER' = FALSE
    /\ STATISTICS_SENDER' = FALSE
    /\ pc' = "td_event"
    /\ UNCHANGED << envVars, closureVars, IS_STREAMING, DISCONNECT_SERVER_NOTIFIER, hud,
                    last_stream_event, callVars, disconnect_channel, workerVars,
                    detached >>

\* lines 518-526: EVENT_QUEUE.lock().push_back(ClientCoreEvent::StreamingStopped)
PushStreamingStopped ==
    /\ pc = "td_event"
    /\ last_stream_event' = "StreamingStopped"
    /\ pc' = "join_video"
    /\ UNCHANGED << envVars, closureVars, IS_STREAMING, DISCONNECT_SERVER_NOTIFIER, slotVars,
                    hud, callVars, disconnect_channel, workerVars, detached >>

\* lines 528-534: the joins, in source order
JoinOrder == << "video_receive", "game_audio", "microphone", "haptics_receive",
                "control_send", "control_receive", "stream_receive" >>
JoinPc == << "join_video", "join_game_audio", "join_microphone", "join_haptics",
             "join_control_send", "join_control_receive", "join_stream_receive" >>

\* Join with the handle dropped instead of joined: no wait for the thread
Join_Dropped(i) ==
    /\ pc = JoinPc[i]
    /\ joined' = joined \cup { JoinOrder[i] }
    /\ pc' = IF i < Len(JoinPc) THEN JoinPc[i + 1] ELSE "p_return"
    /\ UNCHANGED << envVars, closureVars, IS_STREAMING, DISCONNECT_SERVER_NOTIFIER, slotVars,
                    hud, last_stream_event, result, settings, committed,
                    sessions_since_sleep, disconnect_channel, workerVars,
                    detached >>

\* handle.join().ok(): returns once the thread has finished
Join(i) ==
    /\ pc = JoinPc[i]
    /\ thread[JoinOrder[i]] \in { "done", "fatal" }
    /\ joined' = joined \cup { JoinOrder[i] }
    /\ pc' = IF i < Len(JoinPc) THEN JoinPc[i + 1] ELSE "p_return"
    /\ UNCHANGED << envVars, closureVars, IS_STREAMING, DISCONNECT_SERVER_NOTIFIER, slotVars,
                    hud, last_stream_event, result, settings, committed,
                    sessions_since_sleep, disconnect_channel, workerVars,
                    detached >>

\* line 536: Ok(())
ReturnOk ==
    /\ pc = "p_return"
    /\ ReturnGuarded("ok")
    /\ UNCHANGED << envVars, closureVars, IS_STREAMING, slotVars, hud, last_stream_event,
                    workerVars, detached >>

(***************************************************************************)
(* The worker threads                                                      *)
(***************************************************************************)
Running(w) == thread[w] = "run"

\* The closure of worker w ends; how is "done", or "fatal" when it ends on a
\* fatal (non-timeout) transport error.
Exit(w, how) == thread' = [thread EXCEPT ![w] = how]

\* A fault met by a worker, within the bound
Fault ==
    /\ faults < MaxFaults
    /\ faults' = faults + 1

\* Fire with the unit lost: nothing reaches the channel
Fire_Lost(w) ==
    /\ fired' = [fired EXCEPT ![w] = @ + 1]
    /\ UNCHANGED disconnect_channel

\* if let Some(notifier) = &*DISCONNECT_SERVER_NOTIFIER.lock() { notifier.send(()).ok(); }
\* (lines 453-455, 469-471, 480-482, 499-501)
Fire(w) ==
    IF DISCONNECT_SERVER_NOTIFIER
    THEN /\ fired' = [fired EXCEPT ![w] = @ + 1]
         /\ disconnect_channel' = disconnect_channel + 1
    ELSE UNCHANGED << fired, disconnect_channel >>

workerUnchanged == << envVars, closureVars, IS_STREAMING, DISCONNECT_SERVER_NOTIFIER, slotVars,
                      last_stream_event, pc, callVars, detached >>

\* RequestIdr with the send left out
RequestIdr_Never(control_sender) == 0

\* if let Some(sender) = &mut *CONTROL_SENDER.lock() { sender.send(&RequestIdr).ok(); }
\* (lines 320-322, 329-331, 335-337): the number of RequestIdr packets it sends
RequestIdr(control_sender) == IF control_sender THEN 1 ELSE 0

\* line 302: while IS_STREAMING.value()
VideoCheck ==
    /\ Running("video_receive")
    /\ video.at = "check"
    /\ IF IS_STREAMING
       THEN /\ video' = [video EXCEPT !.at = "recv",
                           !.is_idr = FALSE, !.had_packet_loss = FALSE,
                           !.request_idr = 0, !.sender_live = TRUE,
                           !.action = "none", !.clean_at_push = TRUE,
                           !.latched = FALSE]
            /\ UNCHANGED thread
       ELSE /\ Exit("video_receive", "done")
            /\ UNCHANGED video
    /\ UNCHANGED << workerUnchanged, faults, hud, fired, disconnect_channel >>

\* lines 303-305: Err(ConnectionError::TryAgain(_)) => continue
VideoTimeout ==
    /\ Running("video_receive")
    /\ video.at = "recv"
    /\ video' = [video EXCEPT !.at = "check"]
    /\ UNCHANGED << workerUnchanged, faults, hud, fired, disconnect_channel, thread >>

\* line 306: Err(ConnectionError::Other(_)) => return
VideoFatal ==
    /\ Running("video_receive")
    /\ video.at = "recv"
    /\ Fault
    /\ Exit("video_receive", "fatal")
    /\ UNCHANGED << workerUnchanged, hud, fired, disconnect_channel, video >>

\* lines 308-310: let Ok((header, nal)) = data.get() else { return }
VideoMalformed ==
    /\ Running("video_receive")
    /\ video.at = "recv"
    /\ Fault
    /\ Exit("video_receive", "done")
    /\ UNCHANGED << workerUnchanged, hud, fired, disconnect_channel, video >>

\* lines 316-319: the latch after the header of a received packet is examined
CorruptedAfterHeader(stream_corrupted, is_idr, had_packet_loss) ==
    IF is_idr THEN FALSE
    ELSE IF had_packet_loss THEN TRUE
    ELSE stream_corrupted

\* lines 318-322: whether the header makes the thread send RequestIdr
RequestsOnHeader(is_idr, had_packet_loss) == ~is_idr /\ had_packet_loss

\* lines 303-324: a packet is received and its header examined
VideoPacket ==
    /\ Running("video_receive")
    /\ video.at = "recv"
    /\ \E is_idr \in BOOLEAN, had_packet_loss \in BOOLEAN :
         LET requests == RequestsOnHeader(is_idr, had_packet_loss) IN
         video' = [video EXCEPT
            !.at = "decide",
            !.is_idr = is_idr,
            !.had_packet_loss = had_packet_loss,
            !.stream_corrupted =
                CorruptedAfterHeader(video.stream_corrupted, is_idr, had_packet_loss),
            !.request_idr = IF requests THEN RequestIdr(CONTROL_SENDER) ELSE 0,
            !.sender_live = requests => CONTROL_SENDER,
            !.latched = /\ ~video.stream_corrupted
                        /\ CorruptedAfterHeader(video.stream_corrupted, is_idr,
                                                had_packet_loss),
            !.loss_since_idr =
                IF is_idr THEN FALSE ELSE video.loss_since_idr \/ had_packet_loss,
            !.reject_since_idr = IF is_idr THEN FALSE ELSE video.reject_since_idr]
    /\ UNCHANGED << workerUnchanged, faults, hud, fired, disconnect_channel, thread >>

\* ShouldPush with the latch ignored: every packet goes to the decoder
ShouldPush_Always(stream_corrupted, avoid_video_glitching) == TRUE

\* line 326: if !stream_corrupted || !settings.connection.avoid_video_glitching
ShouldPush(stream_corrupted, avoid_video_glitching) ==
    ~stream_corrupted \/ ~avoid_video_glitching

\* lines 326-339: the packet is pushed to the decoder (which accepts or rejects
\* it) or dropped
VideoDecide ==
    /\ Running("video_receive")
    /\ video.at = "decide"
    /\ IF ShouldPush(video.stream_corrupted, video.avoid_video_glitching)
       THEN \E accepted \in BOOLEAN :
              video' = [video EXCEPT
                 !.at = "check",
                 !.action = "pushed",
                 !.clean_at_push = ~video.loss_since_idr /\ ~video.reject_since_idr,
                 !.reject_since_idr = video.reject_since_idr \/ ~accepted,
                 !.stream_corrupted = IF accepted THEN video.stream_corrupted ELSE TRUE,
                 !.latched = video.latched \/ (~video.stream_corrupted /\ ~accepted),
                 !.request_idr = IF accepted THEN video.request_idr
                                 ELSE video.request_idr + RequestIdr(CONTROL_SENDER),
                 !.sender_live = video.sender_live /\ (~accepted => CONTROL_SENDER)]
       ELSE video' = [video EXCEPT
                 !.at = "check",
                 !.action = "dropped",
                 !.request_idr = video.request_idr + RequestIdr(CONTROL_SENDER),
                 !.sender_live = video.sender_live /\ CONTROL_SENDER]
    /\ UNCHANGED << workerUnchanged, faults, hud, fired, disconnect_channel, thread >>

\* audio::play_audio_loop(IS_STREAMING, ..) returns Ok once the flag is false
play_audio_loop_returns(streaming) == ~streaming

\* audio::record_audio_blocking(IS_STREAMING, ..) returns Ok once the flag is false
record_audio_blocking_returns(streaming) == ~streaming

\* lines 346-355: the play loop returns
GameAudioExit ==
    /\ Running("game_audio")
    /\ play_audio_loop_returns(IS_STREAMING)
    /\ Exit("game_audio", "done")
    /\ UNCHANGED << workerUnchanged, faults, hud, fired, disconnect_channel, video >>

\* lines 347-354: play_audio_loop returns Err, which show_err reports
GameAudioError ==
    /\ Running("game_audio")
    /\ Fault
    /\ Exit("game_audio", "done")
    /\ UNCHANGED << workerUnchanged, hud, fired, disconnect_channel, video >>

\* lines 365-382: the record loop ends: the flag is false at the loop condition,
\* or record_audio_blocking returns Ok
MicrophoneExit ==
    /\ Running("microphone")
    /\ ~IS_STREAMING \/ record_audio_blocking_returns(IS_STREAMING)
    /\ Exit("microphone", "done")
    /\ UNCHANGED << workerUnchanged, faults, hud, fired, disconnect_channel, video >>

\* lines 388, 404: while IS_STREAMING.value() ends
HapticsExit ==
    /\ Running("haptics_receive")
    /\ ~IS_STREAMING
    /\ Exit("haptics_receive", "done")
    /\ UNCHANGED << workerUnchanged, faults, hud, fired, disconnect_channel, video >>

\* line 392: Err(ConnectionError::Other(_)) => return
HapticsFatal ==
    /\ Running("haptics_receive")
    /\ Fault
    /\ Exit("haptics_receive", "fatal")
    /\ UNCHANGED << workerUnchanged, hud, fired, disconnect_channel, video >>

\* lines 394-396: let Ok(haptics) = data.get_header() else { return }
HapticsMalformed ==
    /\ Running("haptics_receive")
    /\ Fault
    /\ Exit("haptics_receive", "done")
    /\ UNCHANGED << workerUnchanged, hud, fired, disconnect_channel, video >>

\* ControlSendContinues without the read of IS_STREAMING
ControlSendContinues_StreamingIgnored(streaming, resumed, alive) == resumed /\ alive

\* ControlSendContinues with IS_ALIVE left out of the loop condition
ControlSendContinues_AliveIgnored(streaming, resumed, alive) == streaming /\ resumed

\* line 415: the loop condition of the control send thread
ControlSendContinues(streaming, resumed, alive) == streaming /\ resumed /\ alive

\* lines 415, 453-455: the loop condition fails; the notifier is fired on exit
ControlSendExit ==
    /\ Running("control_send")
    /\ ~ControlSendContinues(IS_STREAMING, IS_RESUMED, IS_ALIVE)
    /\ Exit("control_send", "done")
    /\ Fire("control_send")
    /\ UNCHANGED << workerUnchanged, faults, hud, video >>

\* line 415, the loop condition holds: the thread enters recv_timeout
ControlSendCondition ==
    /\ Running("control_send")
    /\ control_send.at = "cond"
    /\ ControlSendContinues(IS_STREAMING, IS_RESUMED, IS_ALIVE)
    /\ control_send' = [control_send EXCEPT !.at = "recv"]
    /\ UNCHANGED << envVars, negotiation, locks, IS_STREAMING, DISCONNECT_SERVER_NOTIFIER, slotVars,
                    hud, last_stream_event, pc, callVars, disconnect_channel,
                    workerVars, detached >>

\* line 415, the loop condition fails, in the timed loop
ControlSendLeaves == control_send.at = "cond" /\ ControlSendExit

\* Instant::now() after d more ticks
Later(since, d) == IF since + d > MaxSince THEN MaxSince ELSE since + d

\* lines 416-426: log_channel_receiver.recv_timeout(STREAMING_RECV_TIMEOUT) returns
\* a packet after d <= STREAMING_RECV_TIMEOUT ticks, or times out, or returns
\* Disconnected at once when line 514 has dropped the channel's sender; a packet
\* is sent if CONTROL_SENDER holds a handle, and a failed send ends the loop
ControlSendRecvLog ==
    /\ Running("control_send")
    /\ control_send.at = "recv"
    /\ \E d \in 0..STREAMING_RECV_TIMEOUT, packet \in BOOLEAN, sent_ok \in BOOLEAN :
         /\ packet => LOG_CHANNEL_SENDER
         /\ ~packet =>
               /\ sent_ok
               /\ \/ d = STREAMING_RECV_TIMEOUT
                  \/ settings.client_log_report /\ ~LOG_CHANNEL_SENDER
         /\ IF packet /\ CONTROL_SENDER /\ ~sent_ok
            THEN /\ hud' = SERVER_DISCONNECTED_MESSAGE
                 /\ Exit("control_send", "fatal")
                 /\ Fire("control_send")
                 /\ control_send' = [control_send EXCEPT
                        !.since = Later(control_send.since, d)]
            ELSE /\ control_send' = [control_send EXCEPT
                        !.at = "keepalive",
                        !.since = Later(control_send.since, d)]
                 /\ UNCHANGED << hud, thread, fired, disconnect_channel >>
    /\ UNCHANGED << envVars, negotiation, locks, IS_STREAMING, DISCONNECT_SERVER_NOTIFIER, slotVars,
                    last_stream_event, pc, callVars, detached, faults, video >>

\* KeepAliveDue with the deadline ignored: a KeepAlive in every iteration
KeepAliveDue_Always(since, deadline) == TRUE

\* line 428: if Instant::now() > keepalive_deadline
KeepAliveDue(since, deadline) == since > deadline

\* lines 428-434: the KeepAlive is sent if it is due and CONTROL_SENDER holds a
\* handle, and the deadline is set KEEPALIVE_INTERVAL from now
ControlSendKeepAlive ==
    /\ Running("control_send")
    /\ control_send.at = "keepalive"
    /\ control_send' =
          IF KeepAliveDue(control_send.since, control_send.deadline) /\ CONTROL_SENDER
          THEN [ at |-> "cond", since |-> 0, deadline |-> KEEPALIVE_INTERVAL,
                 sent |-> TRUE,
                 gap |-> IF control_send.sent THEN control_send.since
                                              ELSE control_send.gap ]
          ELSE [control_send EXCEPT !.at = "cond"]
    /\ UNCHANGED << envVars, negotiation, locks, IS_STREAMING, DISCONNECT_SERVER_NOTIFIER, slotVars,
                    hud, last_stream_event, pc, callVars, disconnect_channel,
                    workerVars, detached >>

\* lines 416-426, 453-455: a log packet is received, CONTROL_SENDER holds a handle
\* and sender.send(&packet) fails: HUD, break, and the notifier is fired on exit
ControlSendLogError ==
    /\ Running("control_send")
    /\ settings.client_log_report
    /\ CONTROL_SENDER
    /\ hud' = SERVER_DISCONNECTED_MESSAGE
    /\ Fault
    /\ Exit("control_send", "fatal")
    /\ Fire("control_send")
    /\ UNCHANGED << workerUnchanged, video >>

\* lines 459, 487: while IS_STREAMING.value() ends
ControlReceiveExit ==
    /\ Running("control_receive")
    /\ ~IS_STREAMING
    /\ Exit("control_receive", "done")
    /\ UNCHANGED << workerUnchanged, faults, hud, fired, disconnect_channel, video >>

\* lines 466-474: Ok(ServerControlPacket::Restarting)
ControlReceiveRestarting ==
    /\ Running("control_receive")
    /\ hud' = SERVER_RESTART_MESSAGE
    /\ Fault
    /\ Exit("control_receive", "done")
    /\ Fire("control_receive")
    /\ UNCHANGED << workerUnchanged, video >>

\* lines 477-485: Err(e), e not TryAgain
ControlReceiveFatal ==
    /\ Running("control_receive")
    /\ hud' = SERVER_DISCONNECTED_MESSAGE
    /\ Fault
    /\ Exit("control_receive", "fatal")
    /\ Fire("control_receive")
    /\ UNCHANGED << workerUnchanged, video >>

\* lines 491, 506: while IS_STREAMING.value() ends
StreamReceiveExit ==
    /\ Running("stream_receive")
    /\ ~IS_STREAMING
    /\ Exit("stream_receive", "done")
    /\ UNCHANGED << workerUnchanged, faults, hud, fired, disconnect_channel, video >>

\* lines 496-504: Err(e), e not TryAgain
StreamReceiveFatal ==
    /\ Running("stream_receive")
    /\ hud' = SERVER_DISCONNECTED_MESSAGE
    /\ Fault
    /\ Exit("stream_receive", "fatal")
    /\ Fire("stream_receive")
    /\ UNCHANGED << workerUnchanged, video >>

\* A detached thread (video receive, game audio) ends: its loop reads
\* IS_STREAMING (lines 301, 347) and leaves once the flag is false
DetachedExit ==
    /\ ~IS_STREAMING
    /\ \E w \in detached : detached' = detached \ {w}
    /\ UNCHANGED << envVars, closureVars, IS_STREAMING, DISCONNECT_SERVER_NOTIFIER, slotVars,
                    hud, last_stream_event, pc, callVars, disconnect_channel,
                    workerVars >>

(***************************************************************************)
(* Specifications                                                          *)
(***************************************************************************)
(***************************************************************************)
(* The control send and video receive closures statement by statement,     *)
(* with the scope of each MutexGuard.  A guard made in the scrutinee of an  *)
(* `if let` lives to the end of the `if let` statement.                    *)
(***************************************************************************)
lockUnchanged == << envVars, control_send, negotiation, IS_STREAMING,
                    DISCONNECT_SERVER_NOTIFIER, slotVars, last_stream_event, pc,
                    callVars, detached, faults, video >>

At(w, where) == Running(w) /\ locks.at[w] = where

Goto(w, where) == [locks EXCEPT !.at[w] = where]

Acquire(l, m, w) == [l EXCEPT !.holder[m] = w]

Release(l, m) == [l EXCEPT !.holder[m] = "none"]

\* The worker is inside a bounded-timeout receive, or inside a send on the
\* control socket
InRecv(w) == At(w, "recv")
InSend(w) == Running(w) /\ locks.at[w] \in { "send_log", "send_keepalive",
                                              "send_header", "send_decide" }

\* line 415, the loop condition holds: log_channel_receiver.recv_timeout is
\* entered (line 417, the first element of the tuple)
LockControlSendCondition ==
    /\ At("control_send", "cond")
    /\ ControlSendContinues(IS_STREAMING, IS_RESUMED, IS_ALIVE)
    /\ locks' = Goto("control_send", "recv")
    /\ UNCHANGED << lockUnchanged, hud, thread, fired, disconnect_channel >>

\* line 415, the loop condition fails; lines 453-455
LockControlSendLeaves == At("control_send", "cond") /\ ControlSendExit

\* line 417: recv_timeout returns, with a packet or without
LockControlSendRecv ==
    /\ At("control_send", "recv")
    /\ \E packet \in BOOLEAN :
          /\ packet => LOG_CHANNEL_SENDER
          /\ locks' = [Goto("control_send", "lock_log") EXCEPT !.packet = packet]
    /\ UNCHANGED << lockUnchanged, hud, thread, fired, disconnect_channel >>

\* line 418: CONTROL_SENDER.lock(), the second element of the tuple.  If the
\* pattern matches, sender.send(&packet) of line 420 is entered under the guard;
\* else the statement ends and the guard is dropped.
LockControlSendLog ==
    /\ At("control_send", "lock_log")
    /\ Free("CONTROL_SENDER")
    /\ locks' = IF locks.packet /\ CONTROL_SENDER
                THEN Acquire(Goto("control_send", "send_log"), "CONTROL_SENDER",
                             "control_send")
                ELSE Goto("control_send", "due")
    /\ UNCHANGED << lockUnchanged, hud, thread, fired, disconnect_channel >>

\* lines 420-426: sender.send(&packet) returns; on Err the HUD is set and the
\* loop is left (lines 453-455 fire the notifier); the guard is dropped at the
\* end of the `if let`
LockControlSendLogSent ==
    /\ At("control_send", "send_log")
    /\ \E ok \in BOOLEAN :
          IF ok
          THEN /\ locks' = Release(Goto("control_send", "due"), "CONTROL_SENDER")
               /\ UNCHANGED << hud, thread, fired, disconnect_channel >>
          ELSE /\ locks' = Release(Goto("control_send", "cond"), "CONTROL_SENDER")
               /\ hud' = SERVER_DISCONNECTED_MESSAGE
               /\ Exit("control_send", "fatal")
               /\ Fire("control_send")
    /\ UNCHANGED lockUnchanged

\* lines 428-429: if the KeepAlive is due, CONTROL_SENDER.lock(); with a handle
\* in the slot sender.send(&KeepAlive) of line 430 is entered under the guard
LockControlSendDue ==
    /\ At("control_send", "due")
    /\ \E due \in BOOLEAN :
          IF due /\ CONTROL_SENDER
          THEN /\ Free("CONTROL_SENDER")
               /\ locks' = Acquire(Goto("control_send", "send_keepalive"),
                                   "CONTROL_SENDER", "control_send")
          ELSE /\ due => Free("CONTROL_SENDER")
               /\ locks' = Goto("control_send", "cond")
    /\ UNCHANGED << lockUnchanged, hud, thread, fired, disconnect_channel >>

\* lines 430-433: the send returns, the deadline is set, the guard is dropped
LockControlSendKeepAliveSent ==
    /\ At("control_send", "send_keepalive")
    /\ locks' = Release(Goto("control_send", "cond"), "CONTROL_SENDER")
    /\ UNCHANGED << lockUnchanged, hud, thread, fired, disconnect_channel >>

\* line 302: while IS_STREAMING.value(); line 303: video_receiver.recv is entered
LockVideoCondition ==
    /\ At("video_receive", "cond")
    /\ IF IS_STREAMING
       THEN locks' = Goto("video_receive", "recv") /\ UNCHANGED thread
       ELSE Exit("video_receive", "done") /\ UNCHANGED locks
    /\ UNCHANGED << lockUnchanged, hud, fired, disconnect_channel >>

\* lines 303-314: recv returns; on a timeout the loop continues; on a packet
\* the statistics manager is locked for the one call of line 313 and unlocked
LockVideoRecv ==
    /\ At("video_receive", "recv")
    /\ \E packet \in BOOLEAN :
          IF packet
          THEN /\ Free("STATISTICS_MANAGER")
               /\ locks' = Goto("video_receive", "header")
          ELSE locks' = Goto("video_receive", "cond")
    /\ UNCHANGED << lockUnchanged, hud, thread, fired, disconnect_channel >>

\* lines 316-324: on a loss flag CONTROL_SENDER.lock(); with a handle in the
\* slot sender.send(&RequestIdr) of line 321 is entered under the guard
LockVideoHeader ==
    /\ At("video_receive", "header")
    /\ \E is_idr \in BOOLEAN, had_packet_loss \in BOOLEAN :
          IF RequestsOnHeader(is_idr, had_packet_loss)
          THEN /\ Free("CONTROL_SENDER")
               /\ locks' = IF CONTROL_SENDER
                           THEN Acquire(Goto("video_receive", "send_header"),
                                        "CONTROL_SENDER", "video_receive")
                           ELSE Goto("video_receive", "decide")
          ELSE locks' = Goto("video_receive", "decide")
    /\ UNCHANGED << lockUnchanged, hud, thread, fired, disconnect_channel >>

\* lines 321-322: the send returns and the guard is dropped
LockVideoHeaderSent ==
    /\ At("video_receive", "send_header")
    /\ locks' = Release(Goto("video_receive", "decide"), "CONTROL_SENDER")
    /\ UNCHANGED << lockUnchanged, hud, thread, fired, disconnect_channel >>

\* lines 326-340: the packet is pushed and accepted, or a RequestIdr is sent as
\* at line 321 (lines 329-331 after a rejection, 335-337 while waiting)
LockVideoDecide ==
    /\ At("video_receive", "decide")
    /\ \E request \in BOOLEAN :
          IF request
          THEN /\ Free("CONTROL_SENDER")
               /\ locks' = IF CONTROL_SENDER
                           THEN Acquire(Goto("video_receive", "send_decide"),
                                        "CONTROL_SENDER", "video_receive")
                           ELSE Goto("video_receive", "cond")
          ELSE locks' = Goto("video_receive", "cond")
    /\ UNCHANGED << lockUnchanged, hud, thread, fired, disconnect_channel >>

\* lines 330-331, 336-337: the send returns and the guard is dropped
LockVideoDecideSent ==
    /\ At("video_receive", "send_decide")
    /\ locks' = Release(Goto("video_receive", "cond"), "CONTROL_SENDER")
    /\ UNCHANGED << lockUnchanged, hud, thread, fired, disconnect_channel >>

Environment == Destroy \/ Pause \/ Resume

Lifecycle == LifecycleStart \/ WhileAlive \/ IfResumed \/ AfterSession \/ RetrySleep

Discovery == OpenSockets \/ DiscoveryAlive \/ Broadcast \/ NetworkDown \/ ConnectTo

Handshake ==
    \/ MicrophoneSampleRate \/ SendConnectionAccepted \/ RecvStreamConfig
    \/ ParseConfig \/ SplitControlSocket \/ RecvStartStream \/ BindStreamSocket
    \/ SendStreamReady \/ AcceptStreamSocket

Streaming ==
    \/ CommitStreaming \/ CommitControlSender \/ CommitTrackingSender
    \/ CommitStatisticsSender \/ InstallLogSender \/ PushStreamingStarted
    \/ SpawnVideoReceive \/ SpawnGameAudio \/ SpawnMicrophone
    \/ SpawnHapticsReceive \/ SpawnControlSend \/ SpawnControlReceive
    \/ SpawnStreamReceive

Teardown ==
    \/ BlockOnDisconnect \/ TeardownStreaming \/ TeardownSlots
    \/ PushStreamingStopped \/ (\E i \in 1..Len(JoinPc) : Join(i)) \/ ReturnOk

Supervisor == Lifecycle \/ Discovery \/ Handshake \/ Streaming \/ Teardown

\* The video receive thread without the packets: what it does while the host
\* sends no video
VideoIdle == VideoCheck \/ VideoTimeout \/ VideoFatal \/ VideoMalformed

WorkerExits ==
    \/ GameAudioExit \/ MicrophoneExit \/ HapticsExit \/ ControlSendExit
    \/ ControlReceiveExit \/ StreamReceiveExit \/ DetachedExit

WorkerFaults ==
    \/ GameAudioError \/ HapticsFatal \/ HapticsMalformed \/ ControlSendLogError
    \/ ControlReceiveRestarting \/ ControlReceiveFatal \/ StreamReceiveFatal

\* The lifecycle: every outcome of every step of the supervisor and of the
\* workers, the host sending no video packets.  Handling a video packet writes
\* only the locals of the video receive closure, which no other thread reads.
Next == Environment \/ Supervisor \/ VideoIdle \/ WorkerExits \/ WorkerFaults

Spec == Init /\ [][Next]_vars

\* The video receive thread, packets included
VideoReceive == VideoIdle \/ VideoPacket \/ VideoDecide

\* The video path: every outcome of every step of the supervisor and of the
\* video receive thread, the other workers meeting no fault of their own.
NextVideo == Environment \/ Supervisor \/ VideoReceive \/ WorkerExits

VideoSpec == Init /\ [][NextVideo]_vars

\* Scheduling: every thread that can take a step eventually takes one, a
\* bounded-timeout receive returns, and a worker whose loop condition is false
\* leaves its loop.  Nothing is assumed of the environment or of the faults.
Fairness ==
    /\ WF_vars(Supervisor)
    /\ WF_vars(VideoCheck) /\ WF_vars(VideoTimeout)
    /\ WF_vars(GameAudioExit) /\ WF_vars(MicrophoneExit) /\ WF_vars(HapticsExit)
    /\ WF_vars(ControlSendExit) /\ WF_vars(ControlReceiveExit)
    /\ WF_vars(StreamReceiveExit)

FairSpec == Spec /\ Fairness

\* The state at line 510 of a session without audio: the supervisor blocks on
\* the notifier, the five transport workers run, the control send thread is at
\* its first loop condition.
InitStreaming ==
    /\ IS_ALIVE = TRUE /\ IS_RESUMED = TRUE /\ IS_STREAMING = TRUE
    /\ DISCONNECT_SERVER_NOTIFIER = TRUE
    /\ CONTROL_SENDER = TRUE /\ TRACKING_SENDER = TRUE /\ STATISTICS_SENDER = TRUE
    /\ \E log \in BOOLEAN :
          /\ LOG_CHANNEL_SENDER = log
          /\ settings = [DefaultSettings EXCEPT !.client_log_report = log]
    /\ hud = STREAM_STARTING_MESSAGE
    /\ last_stream_event = "StreamingStarted"
    /\ pc = "block"
    /\ result = "none"
    /\ disconnect_channel = 0
    /\ thread = [w \in Workers |->
                   IF w \in { "game_audio", "microphone" } THEN "done" ELSE "run"]
    /\ fired = [w \in Workers |-> 0]
    /\ joined = {}
    /\ detached = {}
    /\ committed = TRUE
    /\ sessions_since_sleep = 1
    /\ faults = 0
    /\ video = VideoInit
    /\ control_send = ControlSendInit
    /\ negotiation = NegotiationInit
    /\ locks = LocksInit

\* The control send loop in discrete time, with what can end it: the flags, a
\* failed send, and the teardown started by another worker's unit.
NextKeepAlive ==
    \/ Destroy \/ Pause \/ Resume
    \/ ControlSendCondition \/ ControlSendLeaves
    \/ ControlSendRecvLog \/ ControlSendKeepAlive
    \/ ControlReceiveFatal
    \/ BlockOnDisconnect \/ TeardownStreaming \/ TeardownSlots

KeepAliveSpec == InitStreaming /\ [][NextKeepAlive]_vars

\* The state at line 185 of a first session: the server is connected, the guard
\* holds the notifier, and the StreamConfigPacket carries some negotiated blob
\* that parses as a mapping.
InitNegotiation ==
    /\ IS_ALIVE = TRUE /\ IS_RESUMED \in BOOLEAN /\ IS_STREAMING = FALSE
    /\ DISCONNECT_SERVER_NOTIFIER = TRUE
    /\ CONTROL_SENDER = FALSE /\ TRACKING_SENDER = FALSE /\ STATISTICS_SENDER = FALSE
    /\ LOG_CHANNEL_SENDER = FALSE
    /\ settings = DefaultSettings
    /\ hud = INITIAL_MESSAGE
    /\ last_stream_event = "none"
    /\ pc = "hs_parse"
    /\ result = "none"
    /\ disconnect_channel = 0
    /\ thread = [w \in Workers |-> "none"]
    /\ fired = [w \in Workers |-> 0]
    /\ joined = {}
    /\ detached = {}
    /\ committed = FALSE
    /\ sessions_since_sleep = 1
    /\ faults = 0
    /\ video = VideoInit
    /\ control_send = ControlSendInit
    /\ locks = LocksInit
    /\ \E vr \in ViewResolutionValues, rr \in RefreshRateValues,
          sr \in SampleRateValues :
          negotiation = [NegotiationInit EXCEPT
              !.blob = [ view_resolution |-> vr, refresh_rate_hint |-> rr,
                         game_audio_sample_rate |-> sr ]]

\* Lines 185-215 step by step, under the application's flags
NextNegotiation ==
    \/ Destroy \/ Pause \/ Resume
    \/ Negotiate \/ BuildStreamingStarted \/ InstallStatisticsManager

NegotiationSpec == InitNegotiation /\ [][NextNegotiation]_vars

\* The two closures that send on the control socket, statement by statement,
\* against the supervisor's teardown
NextLocks ==
    \/ Destroy \/ Pause \/ Resume
    \/ LockControlSendCondition \/ LockControlSendLeaves \/ LockControlSendRecv
    \/ LockControlSendLog \/ LockControlSendLogSent
    \/ LockControlSendDue \/ LockControlSendKeepAliveSent
    \/ LockVideoCondition \/ LockVideoRecv
    \/ LockVideoHeader \/ LockVideoHeaderSent
    \/ LockVideoDecide \/ LockVideoDecideSent
    \/ ControlReceiveFatal
    \/ BlockOnDisconnect \/ TeardownStreaming \/ TeardownSlots

LocksSpec == InitStreaming /\ [][NextLocks]_vars

(***************************************************************************)
(* Properties                                                              *)
(***************************************************************************)
InSession == pc \in DiscoveryPcs \cup HandshakePcs \cup StreamingPcs

Spawned == { w \in Workers : thread[w] # "none" }

TransportWorkers == { "video_receive", "haptics_receive", "control_send",
                      "control_receive", "stream_receive" }

\* C1: once connection_pipeline has set IS_STREAMING to true, it does not return
\* through an error path: whenever a call that set the flag has returned, it
\* returned Ok (having passed the blocking receive and the teardown block).
C1_NoErrorAfterCommit == (pc = "ret" /\ committed) => result = "ok"

\* C2: when a call that set IS_STREAMING to true has returned, streaming is
\* false, the control, log, tracking and statistics slots are empty, every
\* spawned worker has been joined and the notifier slot is empty.
C2_TeardownExit ==
    (pc = "ret" /\ committed) =>
        /\ ~IS_STREAMING
        /\ ~CONTROL_SENDER /\ ~LOG_CHANNEL_SENDER
        /\ ~TRACKING_SENDER /\ ~STATISTICS_SENDER
        /\ Spawned \subseteq joined
        /\ ~DISCONNECT_SERVER_NOTIFIER

\* C3: when connection_lifecycle_loop invokes connection_pipeline again, no
\* thread spawned by an earlier invocation is still running.
C3_JoinedBeforeNextSession == pc = "p_open" => detached = {}

\* C4: every transport worker that ended on a fatal (non-timeout) transport
\* error has sent exactly one unit on the disconnect notifier.
C4_FatalFiresNotifier ==
    \A w \in TransportWorkers : thread[w] = "fatal" => fired[w] = 1

TeardownComplete ==
    /\ pc = "ret" /\ result = "ok"
    /\ ~IS_STREAMING
    /\ ~CONTROL_SENDER /\ ~LOG_CHANNEL_SENDER
    /\ ~TRACKING_SENDER /\ ~STATISTICS_SENDER
    /\ last_stream_event = "StreamingStopped"
    /\ Spawned \subseteq joined

\* C5: if IS_ALIVE or IS_RESUMED is false while a session is in its streaming
\* phase (the call has set IS_STREAMING), then eventually the teardown of that
\* session is complete, unless both flags are true again before the control
\* send thread reads them.
C5_FlagsLeadToTeardown ==
    (committed /\ pc \in StreamingPcs /\ (~IS_ALIVE \/ ~IS_RESUMED))
        ~> (TeardownComplete \/ (IS_ALIVE /\ IS_RESUMED))

LifecycleEnded == pc \in { "returned", "panicked" }

C7_NotifierIffHandshakeOrStreaming ==
    DISCONNECT_SERVER_NOTIFIER <=> pc \in HandshakePcs \cup StreamingPcs

\* C7 witness: a session that streamed has returned and the slot is empty.
C7_Witness ==
    pc = "ret" /\ committed /\ result = "ok" /\ ~DISCONNECT_SERVER_NOTIFIER

AllOutboundSlots == CONTROL_SENDER /\ TRACKING_SENDER /\ STATISTICS_SENDER

NoOutboundSlot == ~CONTROL_SENDER /\ ~TRACKING_SENDER /\ ~STATISTICS_SENDER

StreamingMatchesSlots == IF IS_STREAMING THEN AllOutboundSlots ELSE NoOutboundSlot

\* C8 as stated: in every reachable state, the control, tracking and statistics
\* slots all hold a handle while IS_STREAMING is true and are all empty while it
\* is false.
C8_StreamingIffSlots == StreamingMatchesSlots

\* C8 as amended: the same, in every state in which the supervisor is neither
\* inside lines 285-288 (flag set, slots being published) nor inside lines
\* 512-516 (flag cleared, slots being cleared).
C8_StreamingIffSlotsOutsideBlocks ==
    pc \notin { "commit_control", "commit_tracking", "commit_statistics",
                "td_slots" }
        => StreamingMatchesSlots

\* C8 witness: the supervisor blocks on the notifier, the flag and the slots set.
C8_Witness == pc = "block" /\ IS_STREAMING /\ AllOutboundSlots

\* C9: with avoid_video_glitching on, a non-IDR packet is pushed to the decoder
\* only if no non-IDR packet received since the last IDR (or the start) carried
\* the loss flag and no push since then was rejected; with it off no received
\* packet is dropped.
C9_NoNonIdrAfterLoss ==
    /\ (video.action = "pushed" /\ video.avoid_video_glitching /\ ~video.is_idr)
          => video.clean_at_push
    /\ video.action = "dropped" => video.avoid_video_glitching

\* C9 witness: with avoid_video_glitching on, a non-IDR packet without the loss
\* flag was dropped because an earlier packet carried it.
C9_Witness ==
    /\ video.avoid_video_glitching /\ video.action = "dropped"
    /\ ~video.is_idr /\ ~video.had_packet_loss /\ video.loss_since_idr

\* C10: for a non-IDR packet that arrives with the loss flag while the control
\* sender is live, with avoid_video_glitching on, exactly one RequestIdr is sent.
C10_ExactlyOneRequestIdr ==
    ( /\ video.action # "none" /\ video.avoid_video_glitching
      /\ ~video.is_idr /\ video.had_packet_loss /\ video.sender_live )
        => video.request_idr = 1

\* C11 as stated: whenever handling a video packet has taken stream_corrupted
\* from false to true, at least one RequestIdr has been sent for that packet,
\* whatever avoid_video_glitching is and also when the supervisor's teardown has
\* already cleared the control sender slot.
C11_RequestIdrOnLatch == video.latched => video.request_idr >= 1

\* C11 as amended: whenever handling a video packet has taken stream_corrupted
\* from false to true, either at least one RequestIdr has been sent for that
\* packet, or the control sender slot was empty when the thread locked it; in
\* the latter case IS_STREAMING is false for as long as the thread has not
\* ended, so the thread receives and pushes no further packet.
C11_RequestIdrOnLatchWhileSenderLive ==
    video.latched =>
        \/ video.request_idr >= 1
        \/ /\ ~video.sender_live
           /\ Running("video_receive") => ~IS_STREAMING

\* C11 witness: the latch was set by a packet handled after teardown had cleared
\* the control sender slot, and no RequestIdr was sent.
C11_Witness ==
    /\ video.latched /\ video.request_idr = 0
    /\ ~video.sender_live /\ ~CONTROL_SENDER /\ pc \in TeardownPcs \cup JoinPcs

\* The supervisor leaves connection_pipeline from position p
ReturnsFrom(p) == pc = p /\ pc' = "ret"

\* connection_pipeline returns on an unexpected control packet (lines 236-240)
ReturnsOnUnexpectedPacket ==
    ReturnsFrom("hs_start") /\ hud' = UNEXPECTED_PACKET_MESSAGE

\* The failures propagated with `?` before the commit point: the sockets of
\* lines 116-118, the sends and receives of lines 162-175, the parse of lines
\* 177-186, the split of line 219, the stream listener of line 250 and the
\* stream accept of line 263
ReturnsOnPropagatedFailure ==
    \E p \in { "p_open", "hs_accepted", "hs_config", "hs_parse", "hs_split",
                "hs_bind", "hs_stream_accept" } : ReturnsFrom(p)

\* connection_lifecycle_loop reports an error return on the HUD, and only an
\* error return, then sleeps the retry interval and goes back to the loop head
ErrorPathReported ==
    /\ pc = "ret" /\ pc' # pc =>
          /\ pc' = "sleep"
          /\ hud' = IF result = "err" THEN CONNECTION_ERROR_MESSAGE ELSE hud
    /\ pc = "sleep" /\ pc' # pc => pc' = "while_alive"

\* C12 as stated: a broadcast failure, a socket bind failure, a JSON parse
\* failure, an unexpected control packet and a stream-accept timeout each make
\* connection_pipeline return an error, which connection_lifecycle_loop reports
\* with the "Connection error" HUD message before the retry sleep.
C12_SetupFailuresReturnErr ==
    [][ /\ ( \/ ReturnsFrom("disc_netdown") \/ ReturnsOnUnexpectedPacket
             \/ ReturnsFrom("p_open") \/ ReturnsFrom("hs_bind")
             \/ ReturnsFrom("hs_parse") \/ ReturnsFrom("hs_stream_accept") )
            => result' = "err"
        /\ ErrorPathReported ]_vars

\* C12 as amended: every failure propagated with `?` during discovery or handshake
\* makes connection_pipeline return an error, which connection_lifecycle_loop
\* reports with the "Connection error" HUD message before the retry sleep; a
\* broadcast failure and an unexpected control packet instead return Ok with the
\* HUD message connection_pipeline posted itself (the initial message again
\* after the network-unreachable one; "Unexpected packet"), and no "Connection
\* error" message is posted for them.
C12_PropagatedFailuresReturnErr ==
    [][ /\ ReturnsOnPropagatedFailure => result' = "err"
        /\ ReturnsFrom("disc_netdown") => result' = "ok" /\ hud' = INITIAL_MESSAGE
        /\ ReturnsOnUnexpectedPacket => result' = "ok"
        /\ ErrorPathReported ]_vars

\* C12 witness: connection_pipeline returned an error before the commit point,
\* the "Connection error" message is on the HUD and the retry sleep is next.
C12_Witness ==
    /\ pc = "sleep" /\ result = "err" /\ ~committed
    /\ hud = CONNECTION_ERROR_MESSAGE /\ sessions_since_sleep = 1

\* The control receive thread takes the Restarting branch (lines 466-474): the
\* only step of a running worker that posts the restart message
ReceivesRestarting ==
    /\ Running("control_receive") /\ pc' = pc
    /\ hud' = SERVER_RESTART_MESSAGE /\ hud' # hud

\* The control receive thread of the session has ended on Restarting: it is the
\* only way the thread ends normally having fired the notifier
Restarted ==
    /\ pc \in StreamingPcs
    /\ thread["control_receive"] = "done" /\ fired["control_receive"] = 1

\* C13: on Restarting during streaming the control receive thread posts the
\* restart message, sends one unit on the notifier and ends; from then on the
\* supervisor eventually completes the teardown (StreamingStopped pushed, all
\* workers joined, Ok returned), and eventually begins a new session unless
\* IS_ALIVE or IS_RESUMED is false on the way.
C13_RestartTearsDownAndRetries ==
    /\ [][ ReceivesRestarting =>
              /\ thread'["control_receive"] = "done"
              /\ fired'["control_receive"] = fired["control_receive"] + 1
              /\ disconnect_channel' = disconnect_channel + 1 ]_vars
    /\ Restarted ~> TeardownComplete
    /\ Restarted ~> (pc = "p_open" \/ ~IS_ALIVE \/ ~IS_RESUMED)

\* C13 witness: a session ended by Restarting has been torn down and has
\* returned Ok.
C13_Witness ==
    /\ pc = "ret" /\ result = "ok" /\ last_stream_event = "StreamingStopped"
    /\ thread["control_receive"] = "done" /\ fired["control_receive"] = 1
    /\ Spawned \subseteq joined

\* C14: in discrete time, two successive KeepAlive packets of the control send
\* thread are at least KEEPALIVE_INTERVAL and at most KEEPALIVE_INTERVAL +
\* STREAMING_RECV_TIMEOUT ticks apart, whatever the arrivals on the log channel.
C14_KeepAliveCadence ==
    control_send.gap # 0 =>
        /\ control_send.gap >= KEEPALIVE_INTERVAL
        /\ control_send.gap <= KEEPALIVE_INTERVAL + STREAMING_RECV_TIMEOUT

\* C14 witness: two KeepAlive packets were sent the longest allowed time apart,
\* with log mirroring on.
C14_Witness ==
    /\ control_send.gap = KEEPALIVE_INTERVAL + STREAMING_RECV_TIMEOUT
    /\ settings.client_log_report /\ CONTROL_SENDER /\ Running("control_send")

\* What the negotiation is said to yield for one field: the value of the blob
\* when it is present with the right type, else the default
Derived == negotiation.at \in { "event", "statistics", "done" }

FromBlobOrDefault ==
    [ view_resolution |->
          IF negotiation.blob.view_resolution.kind = "uvec2"
          THEN negotiation.blob.view_resolution.v ELSE << 0, 0 >>,
      refresh_rate_hint |->
          IF negotiation.blob.refresh_rate_hint.kind = "number"
          THEN negotiation.blob.refresh_rate_hint.n ELSE 60,
      game_audio_sample_rate |->
          IF /\ negotiation.blob.game_audio_sample_rate.kind = "number"
             /\ negotiation.blob.game_audio_sample_rate.n >= 0
          THEN negotiation.blob.game_audio_sample_rate.n ELSE 44100 ]

\* C15: negotiation never aborts on a field; each of the three values is the
\* blob's when present with the right type and else its default (0x0, 60,
\* 44100), independently of the other two; the StreamingStarted event carries
\* the derived values.
C15_NegotiationFallsBackPerField ==
    /\ negotiation.at # "panicked"
    /\ Derived =>
          /\ negotiation.view_resolution = FromBlobOrDefault.view_resolution
          /\ negotiation.refresh_rate_hint = FromBlobOrDefault.refresh_rate_hint
          /\ negotiation.game_audio_sample_rate =
                 FromBlobOrDefault.game_audio_sample_rate
          /\ negotiation.blob.game_audio_sample_rate.hi = 0
    /\ negotiation.at \in { "statistics", "done" } =>
          /\ negotiation.event.view_resolution = negotiation.view_resolution
          /\ negotiation.event.refresh_rate_hint = negotiation.refresh_rate_hint

\* C16: a worker that is blocked in a bounded-timeout receive or in a send on
\* the control socket holds none of the slot mutexes.
C16_NoLockAcrossSuspension ==
    \A w \in { "control_send", "video_receive" } :
        InRecv(w) \/ InSend(w) => \A m \in SlotMutexes : locks.holder[m] # w

\* The step of lines 221-241, told by the HUD message of its arm
StartStreamReceived ==
    pc = "hs_start" /\ pc' # "hs_start" /\ hud' = STREAM_STARTING_MESSAGE

StartStreamNotReceived ==
    /\ pc = "hs_start" /\ pc' # "hs_start"
    /\ hud' \in { SERVER_RESTART_MESSAGE, SERVER_DISCONNECTED_MESSAGE,
                  UNEXPECTED_PACKET_MESSAGE }

\* C17: after the split the session goes on to bind the stream transport only
\* if the packet received is StartStream; for Restarting, another packet, an
\* error or a timeout a HUD message is posted and connection_pipeline returns
\* Ok; the call has not set streaming, has spawned no worker, has populated no
\* endpoint slot (the flag and the slots are as the call found them), and the
\* notifier slot is cleared.
C17_OnlyStartStreamProceeds ==
    [][/\ pc = "hs_start" /\ pc' # "hs_start" =>
             StartStreamReceived \/ StartStreamNotReceived
       /\ pc # "hs_bind" /\ pc' = "hs_bind" => StartStreamReceived
       /\ StartStreamNotReceived =>
             /\ pc' = "ret" /\ result' = "ok"
             /\ ~committed /\ ~committed'
             /\ Spawned = {} /\ Spawned' = {}
             /\ UNCHANGED << IS_STREAMING, slotVars >>
             /\ ~DISCONNECT_SERVER_NOTIFIER']_vars

\* An unexpected packet was received at line 221 and the call has returned
C17_Witness ==
    pc = "ret" /\ hud = UNEXPECTED_PACKET_MESSAGE /\ result = "ok" /\ ~committed

\* All seven closures have ended, all seven joins have returned and the call
\* has returned
WorkersJoined ==
    /\ pc = "ret" /\ result = "ok"
    /\ \A w \in Workers : thread[w] \in { "done", "fatal" }
    /\ joined = Workers

SpawnsWorker == \E w \in Workers : thread[w] = "none" /\ thread'[w] = "run"

BlocksOnNotifier == pc # "block" /\ pc' = "block"

JoinsWorker == \E w \in Workers : w \notin joined /\ w \in joined'

\* C19: in a session that reaches streaming, streaming is set and the control,
\* tracking and statistics slots are published before any worker is spawned
\* and before the supervisor blocks on the notifier; at teardown streaming is
\* cleared and the control, log, tracking and statistics slots are emptied
\* before the supervisor joins any worker.
C19_CommitBeforeSpawnTeardownBeforeJoin ==
    [][/\ SpawnsWorker \/ BlocksOnNotifier =>
             committed /\ IS_STREAMING /\ AllOutboundSlots
       /\ JoinsWorker =>
             ~IS_STREAMING /\ NoOutboundSlot /\ ~LOG_CHANNEL_SENDER]_vars

\* The first join has returned; all workers had been spawned
C19_Witness ==
    /\ pc = "join_game_audio" /\ joined = { "video_receive" }
    /\ \A w \in Workers : thread[w] # "none"

\* The pushes of lines 298 and 518-520
PushesStarted == pc = "st_event" /\ pc' = "spawn_video"

PushesStopped == pc = "td_event" /\ pc' = "join_video"

\* C20: over any sequence of sessions the StreamingStarted and StreamingStopped
\* events pushed to the event queue alternate, beginning with StreamingStarted:
\* StreamingStarted is pushed only when the last of the two pushed was not
\* StreamingStarted, and StreamingStopped only when it was StreamingStarted.
C20_StartedStoppedAlternate ==
    [][/\ PushesStarted => last_stream_event # "StreamingStarted"
       /\ PushesStopped => last_stream_event = "StreamingStarted"]_vars

\* The workers whose closure sends on the notifier (lines 453-455, 469-471,
\* 480-482, 499-501)
NotifyingWorkers == { "control_send", "control_receive", "stream_receive" }

\* Steps of the session's channel: line 510 returns, a worker sends a unit,
\* connection_pipeline returns, line 146 makes the next channel
LeavesBlock == pc = "block" /\ pc' = "td_streaming"

SendsUnit(w) == fired'[w] = fired[w] + 1

PipelineReturns == pc # "ret" /\ pc' = "ret"

MakesChannel == pc = "disc_connect" /\ pc' = "hs_mic"

\* C21: disconnect signals are session-local.  Line 510 returns only with a
\* unit that a worker of this session sent on this session's channel, the
\* sender still being in the slot; a unit is sent only by a worker spawned by
\* the call that is running; when the call returns no worker that sends units
\* is left running, so no unit reaches a later channel, and a new channel
\* starts empty.
C21_DisconnectSignalsSessionLocal ==
    [][/\ LeavesBlock =>
             /\ DISCONNECT_SERVER_NOTIFIER
             /\ disconnect_channel > 0
             /\ \E w \in NotifyingWorkers : fired[w] > 0
       /\ \A w \in Workers : SendsUnit(w) =>
             /\ w \in NotifyingWorkers
             /\ Running(w) /\ w \notin detached
             /\ committed /\ pc \in StreamingPcs
             /\ DISCONNECT_SERVER_NOTIFIER
       /\ PipelineReturns =>
             \A w \in NotifyingWorkers : ~Running(w) /\ w \notin detached'
       /\ MakesChannel =>
             /\ disconnect_channel' = 0
             /\ \A w \in Workers : fired[w] = 0
             /\ detached \cap NotifyingWorkers = {}]_vars

\* The joins are done and a redundant unit, sent after line 510 returned, is
\* still in the channel that the return is about to drop
C21_Witness ==
    /\ pc = "p_return" /\ disconnect_channel > 0
    /\ fired["control_send"] = 1

====
